---- MODULE Spec2Model ----
(***************************************************************************)
(* The first-person player controller of three-js-basic: the keyboard      *)
(* tracker, the per-frame movement routine (useFrame), the effects that    *)
(* register listeners and physics subscriptions, and the physics body the  *)
(* controller commands.  Two source files implement it: src/app/page.tsx   *)
(* (file = "page") and its refactoring (file = "part").                    *)
(*                                                                         *)
(* Numbers are fixed point.  A JavaScript number n is held as n * Scale,   *)
(* a resolution in which gravity over one engine step is a whole number;   *)
(* a position is held as n * Scale * StepsPerSecond, so that one engine    *)
(* step adds the velocity to it.                                           *)
(* A vector is a tuple <<x, y, z>>.                                        *)
(***************************************************************************)
EXTENDS Integers, Sequences, FiniteSets, TLC

VARIABLES
    file,            \* which source file runs: "page" or "part"
    mounted,         \* the Player component is mounted
    mounts,          \* how many times it has been mounted
    pending,         \* effects scheduled by the last commit and not yet run:
                     \* "none", "mount", "update" or "unmount"
    keys,            \* useState: the keyboard record of the last render
    queue,           \* setKeys updaters queued for the next render, <<field, value>>
    closureFields,   \* field names of the record the registered handlers' closure holds
    keydownHandlers, \* window "keydown" listeners registered by the controller
    keyupHandlers,   \* window "keyup" listeners registered by the controller
    posSubs,         \* api.position subscriptions registered
    velSubs,         \* api.velocity subscriptions registered
    position,        \* position.current (useRef)
    velocity,        \* velocity.current (useRef)
    camPos,          \* camera.position
    camRot,          \* camera.rotation, <<yaw, pitch>> in degrees
    unitDir,         \* the frame's direction after normalize(), << >> outside a frame
    cmds,            \* the api.velocity.set calls of the frame just run, in order
    bodyPos,         \* the engine's position of the player body
    bodyVel,         \* the engine's velocity of the player body
    reports,         \* engine snapshots posted to the main thread, not yet delivered
    steps,           \* engine steps taken
    frames,          \* frames run against the stepping engine
    lastDown,        \* history: per flag, the last event of its key was a key-down
    lastHandled,     \* history: the same, over the events a registered handler received
    lastReport       \* history: the last snapshot delivered to the subscriptions

vars == <<file, mounted, mounts, pending, keys, queue, closureFields,
          keydownHandlers, keyupHandlers,
          posSubs, velSubs, position, velocity, camPos, camRot, unitDir, cmds,
          bodyPos, bodyVel, reports, steps, frames, lastDown, lastHandled, lastReport>>

(***************************************************************************)
(* Bounds of the model.                                                    *)
(***************************************************************************)
MaxMounts == 2
MaxQueued == 2
MaxSteps == 31
MaxFrames == 2

(***************************************************************************)
(* Program constants.                                                      *)
(***************************************************************************)
Scale == 3000
moveSpeed == 5
jumpForce == 5
StepsPerSecond == 60

\* jumpThreshold: 0.1
jumpThreshold == Scale \div 10
\* gravity: [0, -9.8, 0]
gravity == (98 * Scale) \div 10
\* radius: 0.3
playerRadius == (3 * Scale) \div 10
\* GROUND_CONFIG.position: [0, -0.5, 0]
groundY == -(Scale \div 2)
\* spawnPosition: [0, 1, 0]
spawnY == 1 * Scale

GravityPerStep == gravity \div StepsPerSecond
GroundRestY == (groundY + playerRadius) * StepsPerSecond
SpawnPosition == <<0, spawnY * StepsPerSecond, 0>>
CameraStart == <<0, 1 * Scale * StepsPerSecond, 0>>

Files == {"page", "part"}
Flags == {"w", "s", "a", "d", "space"}

\* KeyboardEvent.key values: movement keys, one in both cases, the space
\* character, a key the controller does not use, and two names only a
\* synthetic event carries: one that lower-cases to a field of the record and
\* one that names a property the record inherits.
KeyValues == {"w", "W", "s", " ", "Shift", "Space", "constructor"}

ToLowerCaseSkipped(k) == k

\* String.prototype.toLowerCase on those values.
ToLowerCase(k) ==
    CASE k = "W" -> "w"
      [] k = "S" -> "s"
      [] k = "A" -> "a"
      [] k = "D" -> "d"
      [] k = "Shift" -> "shift"
      [] k = "Space" -> "space"
      [] OTHER -> k

InitialKeys == [f \in Flags |-> FALSE]

\* { ...prev, [key]: v }
Spread(prev, key, v) ==
    [f \in (DOMAIN prev) \cup {key} |-> IF f = key THEN v ELSE prev[f]]

\* The lower-case property names an object literal inherits from
\* Object.prototype.
InheritedNames == {"constructor", "__proto__"}

\* `key in keys` on the record the handler's closure holds (part): own fields
\* and inherited properties.  page.tsx has no such test.
KeyInKeys(key) ==
    IF file = "part" THEN key \in closureFields \cup InheritedNames ELSE TRUE

\* handleKeyDown (v = TRUE) and handleKeyUp (v = FALSE): the setKeys call
\* queues an updater, or the key is ignored.
SetKeys(eventKey, v) ==
    LET key == ToLowerCase(eventKey)
    IN  IF key = " " THEN Append(queue, <<"space", v>>)
        ELSE IF KeyInKeys(key) THEN Append(queue, <<key, v>>)
        ELSE queue

\* React runs the queued updaters in order on the state of the last render.
RECURSIVE ApplyUpdates(_, _)
ApplyUpdates(state, updates) ==
    IF updates = << >> THEN state
    ELSE ApplyUpdates(Spread(state, Head(updates)[1], Head(updates)[2]),
                      Tail(updates))

(***************************************************************************)
(* Vector arithmetic (THREE.Vector3), in fixed point.                      *)
(***************************************************************************)
Abs(n) == IF n < 0 THEN -n ELSE n

\* Division rounding toward zero.
Div(a, b) == IF a >= 0 THEN a \div b ELSE -((-a) \div b)

RECURSIVE SqrtSearch(_, _, _)
SqrtSearch(n, lo, hi) ==
    IF lo >= hi THEN lo
    ELSE LET mid == (lo + hi + 1) \div 2
         IN  IF mid * mid <= n THEN SqrtSearch(n, mid, hi)
             ELSE SqrtSearch(n, lo, mid - 1)

\* Math.sqrt, rounded down.
Sqrt(n) == SqrtSearch(n, 0, IF n < 46340 THEN n ELSE 46340)

NumberOf(b) == IF b THEN 1 ELSE 0

\* frontVector.set(0, 0, Number(keys.s) - Number(keys.w))
FrontVector(k) == <<0, 0, (NumberOf(k["s"]) - NumberOf(k["w"])) * Scale>>

\* sideVector.set(Number(keys.a) - Number(keys.d), 0, 0)
SideVector(k) == <<(NumberOf(k["a"]) - NumberOf(k["d"])) * Scale, 0, 0>>

SubVectorsAdded(a, b) == <<a[1] + b[1], a[2] + b[2], a[3] + b[3]>>

SubVectors(a, b) == <<a[1] - b[1], a[2] - b[2], a[3] - b[3]>>

Length(v) == Sqrt(v[1] * v[1] + v[2] * v[2] + v[3] * v[3])

\* Vector3.normalize: divideScalar(length() || 1)
Normalize(v) ==
    LET len == Length(v)
        d == IF len = 0 THEN Scale ELSE len
    IN  <<Div(v[1] * Scale, d), Div(v[2] * Scale, d), Div(v[3] * Scale, d)>>

MultiplyScalar(v, s) == <<v[1] * s, v[2] * s, v[3] * s>>

\* Orientations the mouse-look controller gives the camera: yaw about the y
\* axis, then pitch about the x axis, in degrees.
Yaws == {0, 90}
Pitches == {0, 60}

Cos(deg) ==
    CASE deg = 0 -> Scale [] deg = 60 -> Scale \div 2 [] deg = 90 -> 0
      [] deg = 180 -> -Scale [] deg = 270 -> 0

Sin(deg) ==
    CASE deg = 0 -> 0 [] deg = 60 -> (86603 * Scale) \div 100000 [] deg = 90 -> Scale
      [] deg = 180 -> 0 [] deg = 270 -> -Scale

\* Vector3.applyEuler(camera.rotation): rotate by pitch about x, then by yaw
\* about y.
ApplyEuler(v, rot) ==
    LET yaw == rot[1]
        pitch == rot[2]
        y1 == Div(v[2] * Cos(pitch) - v[3] * Sin(pitch), Scale)
        z1 == Div(v[2] * Sin(pitch) + v[3] * Cos(pitch), Scale)
    IN  <<Div(v[1] * Cos(yaw) + z1 * Sin(yaw), Scale),
          y1,
          Div(z1 * Cos(yaw) - v[1] * Sin(yaw), Scale)>>

(***************************************************************************)
(* The frame routine's pieces.                                             *)
(***************************************************************************)
ZeroVector == <<0, 0, 0>>

\* direction before multiplyScalar and applyEuler
UnitDirection(k) == Normalize(SubVectors(FrontVector(k), SideVector(k)))

\* direction after multiplyScalar(moveSpeed).applyEuler(camera.rotation)
Direction(k, rot) == ApplyEuler(MultiplyScalar(UnitDirection(k), moveSpeed), rot)

MoveCommandZeroY(direction, vel) == <<direction[1], 0, direction[3]>>

\* api.velocity.set(direction.x, velocity.current[1], direction.z)
MoveCommand(direction, vel) == <<direction[1], vel[2], direction[3]>>

JumpCommandKeepsY(vel) == vel

\* api.velocity.set(velocity.current[0], jumpForce, velocity.current[2])
JumpCommand(vel) == <<vel[1], jumpForce * Scale, vel[3]>>

IsGroundedAtRest(vel) == vel[2] = 0

\* Math.abs(velocity.current[1]) < jumpThreshold
IsGrounded(vel) == Abs(vel[2]) < jumpThreshold

CameraFollowHalfway(cam, pos) ==
    <<(cam[1] + pos[1]) \div 2, (cam[2] + pos[2]) \div 2, (cam[3] + pos[3]) \div 2>>

\* camera.position.copy(new THREE.Vector3(...position.current))
CameraFollow(cam, pos) == pos

\* The velocity commands one frame issues, in order.
FrameCommands(k, rot, vel) ==
    LET move == MoveCommand(Direction(k, rot), vel)
    IN  IF k["space"] /\ IsGrounded(vel)
        THEN <<move, JumpCommand(vel)>>
        ELSE <<move>>

(***************************************************************************)
(* Effects: listener and subscription registration.                        *)
(***************************************************************************)
\* The effects a re-render schedules: part_000 gives the keyboard effect no
\* dependency list, so it runs again after every render; page.tsx gives [],
\* so nothing is scheduled.
EffectsOfRender == IF file = "part" THEN "update" ELSE "none"

\* The keyboard effect run again: its cleanup removes the listener and the
\* effect adds the new one.
RerunKeyEffect(n) == (n - 1) + 1

\* The callbacks that write position.current and velocity.current are
\* registered: the effects of the mount have run and the subscription has not
\* been removed.
Subscribed(n) == n > 0 /\ pending # "mount"

\* The subscription effects' cleanup: part_000 returns the unsubscribe calls,
\* page.tsx returns nothing.
SubscriptionCleanup(n) == IF file = "part" THEN n - 1 ELSE n

\* The flag a key value belongs to: its letter in either case, and for jump
\* the space character.
FlagOfKey(k) ==
    CASE k \in {"w", "W"} -> "w"
      [] k \in {"s", "S"} -> "s"
      [] k \in {"a", "A"} -> "a"
      [] k \in {"d", "D"} -> "d"
      [] k = " " -> "space"
      [] OTHER -> "none"

\* The flag a key value sets: as above, and for jump also the name "space" in
\* any case.
FlagSetByKey(k) == IF k = "Space" THEN "space" ELSE FlagOfKey(k)

NoteEvent(k, v) ==
    IF FlagOfKey(k) \in Flags THEN [lastDown EXCEPT ![FlagOfKey(k)] = v] ELSE lastDown

NoteHandled(k, v) ==
    IF FlagSetByKey(k) \in Flags THEN [lastHandled EXCEPT ![FlagSetByKey(k)] = v]
    ELSE lastHandled

(***************************************************************************)
(* Initial state: the scene before the Player component mounts.            *)
(***************************************************************************)
Init ==
    /\ file \in Files
    /\ mounted = FALSE
    /\ mounts = 0
    /\ pending = "none"
    /\ keys = InitialKeys
    /\ queue = << >>
    /\ closureFields = {}
    /\ keydownHandlers = 0
    /\ keyupHandlers = 0
    /\ posSubs = 0
    /\ velSubs = 0
    /\ position = ZeroVector
    /\ velocity = ZeroVector
    /\ camPos = CameraStart
    /\ camRot = <<0, 0>>
    /\ unitDir = << >>
    /\ cmds = << >>
    /\ bodyPos = SpawnPosition
    /\ bodyVel = ZeroVector
    /\ reports = << >>
    /\ steps = 0
    /\ frames = 0
    /\ lastDown = [f \in Flags |-> FALSE]
    /\ lastHandled = [f \in Flags |-> FALSE]
    /\ lastReport = << >>

\* Player mounts (render and commit): useSphere creates the body, the refs
\* and the keyboard state take their initial values, the frame callback is
\* in place, and the effects are scheduled.
Mount ==
    /\ ~mounted
    /\ pending = "none"
    /\ mounts < MaxMounts
    /\ mounted' = TRUE
    /\ mounts' = mounts + 1
    /\ pending' = "mount"
    /\ keys' = InitialKeys
    /\ queue' = << >>
    /\ position' = ZeroVector
    /\ velocity' = ZeroVector
    /\ bodyPos' = SpawnPosition
    /\ bodyVel' = ZeroVector
    /\ reports' = << >>
    /\ lastDown' = [f \in Flags |-> FALSE]
    /\ lastHandled' = [f \in Flags |-> FALSE]
    /\ lastReport' = << >>
    /\ unitDir' = << >>
    /\ cmds' = << >>
    /\ UNCHANGED <<file, closureFields, keydownHandlers, keyupHandlers, posSubs,
                   velSubs, camPos, camRot, steps, frames>>

\* The effects of the mount run: the key listeners and the position and
\* velocity subscriptions are registered.
MountEffects ==
    /\ pending = "mount"
    /\ pending' = "none"
    /\ closureFields' = DOMAIN keys
    /\ keydownHandlers' = keydownHandlers + 1
    /\ keyupHandlers' = keyupHandlers + 1
    /\ posSubs' = posSubs + 1
    /\ velSubs' = velSubs + 1
    /\ unitDir' = << >>
    /\ cmds' = << >>
    /\ UNCHANGED <<file, mounted, mounts, keys, queue, position, velocity, camPos,
                   camRot, bodyPos, bodyVel, reports, steps, frames, lastDown, lastHandled,
                   lastReport>>

\* Player re-renders (render and commit), after the effects of the commit
\* before it: React applies the queued updaters and schedules the effects.
Render ==
    /\ mounted
    /\ pending = "none"
    /\ keys' = ApplyUpdates(keys, queue)
    /\ queue' = << >>
    /\ pending' = EffectsOfRender
    /\ unitDir' = << >>
    /\ cmds' = << >>
    /\ UNCHANGED <<file, mounted, mounts, closureFields, keydownHandlers,
                   keyupHandlers, posSubs, velSubs, position, velocity,
                   camPos, camRot, bodyPos, bodyVel, reports, steps, frames, lastDown, lastHandled,
                   lastReport>>

\* The effects of a re-render run: the keyboard effect replaces the listeners
\* with ones whose closure holds the record of that render.
RenderEffects ==
    /\ pending = "update"
    /\ pending' = "none"
    /\ closureFields' = DOMAIN keys
    /\ keydownHandlers' = RerunKeyEffect(keydownHandlers)
    /\ keyupHandlers' = RerunKeyEffect(keyupHandlers)
    /\ unitDir' = << >>
    /\ cmds' = << >>
    /\ UNCHANGED <<file, mounted, mounts, keys, queue, posSubs, velSubs, position,
                   velocity, camPos, camRot, bodyPos, bodyVel, reports, steps,
                   frames, lastDown, lastHandled, lastReport>>

\* Player unmounts (commit), after the effects of the commit before it: the
\* component's state and queued updates are discarded and the effects'
\* cleanups are scheduled.
Unmount ==
    /\ mounted
    /\ pending = "none"
    /\ mounted' = FALSE
    /\ pending' = "unmount"
    /\ keys' = InitialKeys
    /\ queue' = << >>
    /\ lastDown' = [f \in Flags |-> FALSE]
    /\ lastHandled' = [f \in Flags |-> FALSE]
    /\ unitDir' = << >>
    /\ cmds' = << >>
    /\ UNCHANGED <<file, mounts, closureFields, keydownHandlers, keyupHandlers,
                   posSubs, velSubs, position, velocity, camPos, camRot,
                   bodyPos, bodyVel, reports, steps, frames, lastReport>>

\* The effects' cleanups run: the key listeners are removed, and the
\* subscriptions where the effect returned a cleanup.
UnmountCleanups ==
    /\ pending = "unmount"
    /\ pending' = "none"
    /\ closureFields' = {}
    /\ keydownHandlers' = keydownHandlers - 1
    /\ keyupHandlers' = keyupHandlers - 1
    /\ posSubs' = SubscriptionCleanup(posSubs)
    /\ velSubs' = SubscriptionCleanup(velSubs)
    /\ unitDir' = << >>
    /\ cmds' = << >>
    /\ UNCHANGED <<file, mounted, mounts, keys, queue, position, velocity, camPos,
                   camRot, bodyPos, bodyVel, reports, steps, frames, lastDown, lastHandled,
                   lastReport>>

\* A key event reaches the registered handler, which queues a state update
\* and returns; the record changes at the next render.  React drops an
\* update queued for a component it has removed.
KeyEvent(k, v, handlers) ==
    /\ handlers > 0
    /\ Len(queue) < MaxQueued
    /\ queue' = IF mounted THEN SetKeys(k, v) ELSE queue
    /\ lastDown' = IF mounted THEN NoteEvent(k, v) ELSE lastDown
    /\ lastHandled' = IF mounted THEN NoteHandled(k, v) ELSE lastHandled
    /\ unitDir' = << >>
    /\ cmds' = << >>
    /\ UNCHANGED <<file, mounted, mounts, pending, keys, closureFields,
                   keydownHandlers, keyupHandlers, posSubs, velSubs, position,
                   velocity, camPos, camRot, bodyPos, bodyVel, reports, steps, frames,
                   lastReport>>

\* handleKeyDown
KeyDown == \E k \in KeyValues : KeyEvent(k, TRUE, keydownHandlers)

\* handleKeyUp
KeyUp == \E k \in KeyValues : KeyEvent(k, FALSE, keyupHandlers)

\* A key event while the component is rendered and its effect has not yet
\* registered the listeners: no handler runs.
KeyUnheard ==
    /\ mounted
    /\ keydownHandlers = 0
    /\ keyupHandlers = 0
    /\ \E k \in KeyValues, v \in BOOLEAN : lastDown' = NoteEvent(k, v)
    /\ unitDir' = << >>
    /\ cmds' = << >>
    /\ UNCHANGED <<file, mounted, mounts, pending, keys, queue, closureFields,
                   keydownHandlers, keyupHandlers, posSubs, velSubs, position,
                   velocity, camPos, camRot, bodyPos, bodyVel, reports, steps, frames,
                   lastHandled, lastReport>>

\* The mouse-look controller turns the camera.
MouseLook ==
    /\ \E rot \in Yaws \X Pitches : rot # camRot /\ camRot' = rot
    /\ unitDir' = << >>
    /\ cmds' = << >>
    /\ UNCHANGED <<file, mounted, mounts, pending, keys, queue, closureFields, keydownHandlers,
                   keyupHandlers, posSubs, velSubs, position, velocity, camPos,
                   bodyPos, bodyVel, reports, steps, frames, lastDown, lastHandled, lastReport>>

\* The subscription callbacks, run on a snapshot the engine publishes.
Notify(p, v) ==
    /\ position' = IF Subscribed(posSubs) THEN p ELSE position
    /\ velocity' = IF Subscribed(velSubs) THEN v ELSE velocity
    /\ lastReport' =
           IF Subscribed(posSubs) /\ Subscribed(velSubs) THEN <<p, v>> ELSE lastReport

\* Snapshots the engine may publish.
VelSamples == {<<0, 150, 0>>, <<0, 300, 0>>, <<10605, -490, -10605>>}
PosSamples == {<<0, GroundRestY, 0>>, <<270000, 90000, -360000>>}

\* The engine, taken as the environment, publishes a snapshot of the body.
Report ==
    /\ mounted
    /\ \E p \in PosSamples, v \in VelSamples : Notify(p, v)
    /\ unitDir' = << >>
    /\ cmds' = << >>
    /\ UNCHANGED <<file, mounted, mounts, pending, keys, queue, closureFields, keydownHandlers,
                   keyupHandlers, posSubs, velSubs, camPos, camRot, bodyPos, bodyVel,
                   reports, steps, frames, lastDown, lastHandled>>

\* The useFrame callback.
FrameRoutine ==
    /\ mounted
    /\ unitDir' = UnitDirection(keys)
    /\ cmds' = FrameCommands(keys, camRot, velocity)
    /\ camPos' = CameraFollow(camPos, position)
    /\ UNCHANGED <<file, mounted, mounts, pending, keys, queue, closureFields, keydownHandlers,
                   keyupHandlers, posSubs, velSubs, position, velocity, camRot,
                   reports, steps, lastDown, lastHandled, lastReport>>

\* A frame, with the engine taken as the environment.
Frame == FrameRoutine /\ UNCHANGED <<bodyPos, bodyVel, frames>>

\* The keys pressed while frames run against engine reports.
FrameKeyValues == {"w", "d", " "}

FrameKeyDown == \E k \in FrameKeyValues : KeyEvent(k, TRUE, keydownHandlers)

FrameKeyUp == \E k \in FrameKeyValues : KeyEvent(k, FALSE, keyupHandlers)

Next ==
    Mount \/ MountEffects \/ FrameKeyDown \/ FrameKeyUp \/ Render \/ RenderEffects
        \/ MouseLook \/ Report \/ Frame

Spec == Init /\ [][Next]_vars

(***************************************************************************)
(* The controller's lifetime: mounting, key events of every kind,          *)
(* re-rendering, frames, teardown.                                         *)
(***************************************************************************)
\* The movement keys.
MoveKeyValues == {"w", "s", "a", "d"}

MoveKeyDown == \E k \in MoveKeyValues : KeyEvent(k, TRUE, keydownHandlers)

MoveKeyUp == \E k \in MoveKeyValues : KeyEvent(k, FALSE, keyupHandlers)

NextLife ==
    Mount \/ MountEffects \/ Render \/ RenderEffects \/ Unmount \/ UnmountCleanups
        \/ MoveKeyDown \/ MoveKeyUp \/ Frame

SpecLife == Init /\ [][NextLife]_vars

(***************************************************************************)
(* The keyboard tracker: key events of every kind, heard or not, and the   *)
(* renders that apply the updates they queue.                              *)
(***************************************************************************)
NextKeys ==
    Mount \/ MountEffects \/ KeyUnheard \/ KeyDown \/ KeyUp \/ Render \/ RenderEffects

SpecKeys == Init /\ [][NextKeys]_vars

(***************************************************************************)
(* The controller with the physics body: gravity, the ground plane, and    *)
(* the snapshots the engine posts after each step.  Only the jump key is   *)
(* pressed, and held, so the body stays above the ground plane at          *)
(* x = z = 0.                                                              *)
(***************************************************************************)
\* A frame whose last velocity command the engine takes over.
FramePosted ==
    /\ frames < MaxFrames
    /\ frames' = frames + 1
    /\ FrameRoutine
    /\ bodyVel' = cmds'[Len(cmds')]
    /\ UNCHANGED bodyPos

\* The jump key goes down, once, and stays down.
JumpKeyDown ==
    /\ ~keys["space"]
    /\ queue = << >>
    /\ KeyEvent(" ", TRUE, keydownHandlers)

\* One engine step of 1/StepsPerSecond s, taken once the main thread has
\* received the last snapshot: gravity changes the velocity, the new velocity
\* moves the body, the ground plane stops it; the snapshot is posted to the
\* main thread.
EngineStep ==
    /\ mounted
    /\ steps < MaxSteps
    /\ reports = << >>
    /\ LET v1 == <<bodyVel[1], bodyVel[2] - GravityPerStep, bodyVel[3]>>
           p1 == <<bodyPos[1] + v1[1], bodyPos[2] + v1[2], bodyPos[3] + v1[3]>>
           hit == p1[2] <= GroundRestY
           v2 == IF hit THEN <<v1[1], 0, v1[3]>> ELSE v1
           p2 == IF hit THEN <<p1[1], GroundRestY, p1[3]>> ELSE p1
       IN  /\ bodyVel' = v2
           /\ bodyPos' = p2
           /\ reports' = Append(reports, <<p2, v2>>)
    /\ steps' = steps + 1
    /\ unitDir' = << >>
    /\ cmds' = << >>
    /\ UNCHANGED <<file, mounted, mounts, pending, keys, queue, closureFields, keydownHandlers,
                   keyupHandlers, posSubs, velSubs, position, velocity, camPos,
                   camRot, frames, lastDown, lastHandled, lastReport>>

\* The main thread receives the oldest posted snapshot.
Deliver ==
    /\ mounted
    /\ reports # << >>
    /\ Notify(Head(reports)[1], Head(reports)[2])
    /\ reports' = Tail(reports)
    /\ unitDir' = << >>
    /\ cmds' = << >>
    /\ UNCHANGED <<file, mounted, mounts, pending, keys, queue, closureFields, keydownHandlers,
                   keyupHandlers, posSubs, velSubs, camPos, camRot, bodyPos, bodyVel,
                   steps, frames, lastDown, lastHandled>>

NextPhysics ==
    Mount \/ MountEffects \/ JumpKeyDown \/ Render \/ RenderEffects \/ EngineStep
        \/ Deliver \/ FramePosted

SpecPhysics == Init /\ [][NextPhysics]_vars

(***************************************************************************)
(* Properties.                                                             *)
(***************************************************************************)
FrameJustRan == cmds # << >>

LastCommand == cmds[Len(cmds)]

JumpVelocity == jumpForce * Scale

\* C1: in a frame with the jump flag set, if |cached vy| < 0.1 the last
\* velocity command of the frame has vertical component 5; if |cached vy| >= 0.1
\* every command of the frame carries the cached vy.
C1_JumpOnlyWhenGrounded ==
    (FrameJustRan /\ keys["space"]) =>
        /\ Abs(velocity[2]) < jumpThreshold => LastCommand[2] = JumpVelocity
        /\ Abs(velocity[2]) >= jumpThreshold =>
               \A i \in 1..Len(cmds) : cmds[i][2] = velocity[2]

\* C1 witness: a frame ran with jump pressed and cached vy = 0.05, and its
\* last command has vy = 5.
C1_Witness ==
    /\ FrameJustRan
    /\ keys["space"]
    /\ velocity[2] * 20 = Scale
    /\ LastCommand[2] = 5 * Scale

AxisFront == NumberOf(keys["s"]) - NumberOf(keys["w"])
AxisSide == NumberOf(keys["a"]) - NumberOf(keys["d"])

\* A component of a normalized two-axis direction: sign c, magnitude 1 when
\* the other axis is zero and 0.7071 (2121 / 3000) when it is not.
UnitComponent(c, other) == c * (IF other = 0 THEN 3000 ELSE 2121)

\* C2 as stated: for every combination of w, s, a, d the direction before
\* scaling and rotation is normalize((s - w), 0, (a - d)) in (x, y, z) order.
C2_Original ==
    FrameJustRan =>
        unitDir = <<UnitComponent(AxisFront, AxisSide), 0,
                    UnitComponent(AxisSide, AxisFront)>>

\* C2 amended: for every combination of w, s, a, d the direction before
\* scaling and rotation is normalize((d - a), 0, (s - w)) in (x, y, z) order,
\* the zero vector when both axis values are zero.
C2_DirectionIsRightMinusLeftThenBackMinusFront ==
    FrameJustRan =>
        unitDir = <<UnitComponent(-AxisSide, AxisFront), 0,
                    UnitComponent(AxisFront, AxisSide)>>

\* C2 witness: a frame ran with w and a pressed alone and the direction is
\* the diagonal (-0.707, 0, -0.707).
C2_Witness ==
    /\ FrameJustRan
    /\ keys["w"] /\ keys["a"] /\ ~keys["s"] /\ ~keys["d"]
    /\ unitDir = <<-2121, 0, -2121>>

\* C3 as stated: in every frame after the player is created, the vertical
\* component of the movement command is a value the engine reported, the last
\* one delivered through the velocity subscription.
C3_Original ==
    FrameJustRan => (lastReport # << >> /\ cmds[1][2] = lastReport[2][2])

\* C3 amended: in every frame the vertical component of the movement command
\* is the last vertical velocity delivered through the velocity subscription,
\* or the cache's initial 0 while no report has been delivered yet.
C3_MoveCommandKeepsCachedVy ==
    FrameJustRan =>
        cmds[1][2] = (IF lastReport = << >> THEN 0 ELSE lastReport[2][2])

\* C3 witness: a frame ran after a free-fall report and its movement command
\* carries that vertical velocity.
C3_Witness ==
    /\ FrameJustRan
    /\ lastReport # << >>
    /\ lastReport[2][2] = -490
    /\ cmds[1][2] = -490

\* C4 as stated: at the end of every frame the camera position equals the
\* body position most recently delivered through the position subscription,
\* whether or not the frame issued a jump command.
C4_Original ==
    FrameJustRan => (lastReport # << >> /\ camPos = lastReport[1])

\* C4 amended: at the end of every frame the camera position equals the body
\* position most recently delivered through the position subscription, or the
\* position cache's initial (0, 0, 0) while none has been delivered yet,
\* whether or not the frame issued a jump command.
C4_CameraAtCachedPosition ==
    FrameJustRan =>
        camPos = (IF lastReport = << >> THEN ZeroVector ELSE lastReport[1])

\* C4 witness: a frame that issued a jump command ended with the camera moved
\* from its start to the delivered position.
C4_Witness ==
    /\ Len(cmds) = 2
    /\ lastReport # << >>
    /\ camPos = lastReport[1]
    /\ camPos = <<270000, 90000, -360000>>

\* C5: after any sequence of key events the keyboard state is a record with
\* exactly the five flags w, s, a, d, space.
C5_Claim == DOMAIN keys = Flags

\* C6 as stated: after any sequence of key events each flag is true exactly
\* when the most recent event for its key (the letter in either case, the
\* space character for jump) was a key-down.
C6_Original ==
    mounted => \A f \in Flags : keys[f] = lastDown[f]

\* C6 with the render delay alone: once the queued updates are rendered each
\* flag is true exactly when the most recent event for its key was a key-down.
\* It fails: an event before the listeners are registered is not heard, and
\* an event named "Space" sets the jump flag.
C6_OnceRenderedEveryEvent ==
    (mounted /\ queue = << >>) => \A f \in Flags : keys[f] = lastDown[f]

\* C6 amended: once the component has re-rendered with the state updates the
\* handlers queued, each flag is true exactly when the most recent event for
\* its key that reached a registered handler was a key-down (the key in either
\* case; for jump the space character or the name "space"), and no other key
\* changes it.
C6_FlagIsLastHandledEventOfItsKeyOnceRendered ==
    (mounted /\ queue = << >>) => \A f \in Flags : keys[f] = lastHandled[f]

\* C6 witness: the updates are applied; w is held; the jump flag is set by a
\* key-down named "Space", with no space character pressed; s is not set,
\* its key-down having come before the listeners were registered.
C6_Witness ==
    /\ mounted
    /\ queue = << >>
    /\ keys["w"] /\ lastHandled["w"]
    /\ keys["space"] /\ lastHandled["space"] /\ ~lastDown["space"]
    /\ ~keys["s"] /\ ~lastHandled["s"] /\ lastDown["s"]

\* C7: in a frame where the jump fires, the jump command's horizontal
\* components equal those of the movement command issued earlier in the frame.
C7_Claim ==
    Len(cmds) = 2 => (cmds[2][1] = cmds[1][1] /\ cmds[2][3] = cmds[1][3])

\* C8: a movement command never changes the vertical velocity the engine
\* holds: the vy it carries is the engine's vy at the time it is issued.
C8_Claim == [][frames' # frames => cmds'[1][2] = bodyVel[2]]_vars

\* C9: with jump held and |cached vy| < 0.1 a frame issues the jump command
\* even though the body is above its resting height on the ground.
C9_JumpWhileAirborne ==
    (FrameJustRan /\ keys["space"] /\ Abs(velocity[2]) < jumpThreshold
        /\ bodyPos[2] > GroundRestY)
    => (Len(cmds) = 2 /\ cmds[2][2] = JumpVelocity)

\* C9 witness: the body is above its spawn height (an earlier jump raised it),
\* the engine's latest report, delivered, shows it just past the apex
\* (-0.1 < vy < 0), and the frame that just ran issued a second jump.
C9_Witness ==
    /\ Len(cmds) = 2
    /\ cmds[2][2] = 5 * Scale
    /\ bodyPos[2] > SpawnPosition[2]
    /\ reports = << >>
    /\ lastReport # << >>
    /\ lastReport[2] = velocity
    /\ lastReport[1] = bodyPos
    /\ velocity[2] < 0
    /\ velocity[2] * 10 > -Scale

\* C10: while the controller is mounted at most one key-down handler, one
\* key-up handler, one position subscription and one velocity subscription
\* are registered, and after teardown (the component removed and the effects'
\* cleanups run) none is.
C10_Claim ==
    /\ mounted =>
           /\ keydownHandlers <= 1 /\ keyupHandlers <= 1
           /\ posSubs <= 1 /\ velSubs <= 1
    /\ (~mounted /\ pending = "none") =>
           /\ keydownHandlers = 0 /\ keyupHandlers = 0
           /\ posSubs = 0 /\ velSubs = 0

====
